---- MODULE Spec2Model ----
(***************************************************************************)
(* Verification model of the SMA-crossover demo algorithm                   *)
(* (Algorithm.Python/SimpleSmaCrossDemoAlgorithm.py) and of the offline     *)
(* chart visualizer (tools/visualize_lean_charts.py).                       *)
(*                                                                          *)
(* Spec        : the live algorithm, driven by the host's event loop        *)
(*               (on_data / on_order_event).                                *)
(* ExtractSpec : the pure function _extract_xy applied to one raw series.   *)
(* ToolSpec    : one run of the offline tool's main().                      *)
(***************************************************************************)
EXTENDS Integers, Sequences, FiniteSets

VARIABLES
    \* ---- live algorithm (SimpleSmaCrossDemoAlgorithm) ----
    was_fast_above,   \* self._was_fast_above: None or a boolean
    chart,            \* the "SPY" chart: series name -> plotted points
    orders,           \* sizing commands handed to the host, in order
    now,              \* number of callbacks delivered so far (host clock)
    call,             \* the callback being delivered and its arguments
    trace,            \* per processed bar: comparison, stored flag, command
    \* ---- _extract_xy on one series ----
    series,           \* the raw series object
    extracted,        \* outcome of the call
    \* ---- offline tool main() ----
    argv,             \* parsed command line
    disk,             \* the input file (or its absence)
    tool              \* outcome of the run

vars == <<was_fast_above, chart, orders, now, call, trace,
          series, extracted, argv, disk, tool>>

liveVars    == <<was_fast_above, chart, orders, now, call, trace>>
extractVars == <<series, extracted>>
toolVars    == <<argv, disk, tool>>

\* ------------------------------------------------------------------------
\* Bounds
\* ------------------------------------------------------------------------
MaxCalls == 4

\* Python's None for an optional boolean; Some(b) is the boolean b.
None == <<>>
Some(b) == <<b>>

FastValues == {1, 2, 3}
SlowValues == {2}
CloseValues == {5}
FillPrices == {7, 8}
FillQuantities == {-1, 0, 1}
OrderStatuses == {"FILLED", "CANCELED"}

\* ------------------------------------------------------------------------
\* SimpleSmaCrossDemoAlgorithm
\* ------------------------------------------------------------------------

SeriesNames == {"Price", "FastSMA", "SlowSMA", "Buy", "Sell"}

\* self.plot(ticker, name, value): append a point at the current time
plot(c, name, t, value) == [c EXCEPT ![name] = Append(@, <<t, value>>)]

\* the three early returns at the head of on_data
SkipsIgnoringReadiness(is_warming_up, fast_ready, slow_ready, has_bar) ==
    is_warming_up \/ ~has_bar

Skips(is_warming_up, fast_ready, slow_ready, has_bar) ==
    \/ is_warming_up
    \/ ~(fast_ready /\ slow_ready)
    \/ ~has_bar

IsFastAboveNonStrict(fast, slow) == fast >= slow

IsFastAbove(fast, slow) == fast > slow

\* The body of on_data after the comparison: the command issued (if any)
\* and the value of self._was_fast_above on return.
DetectSentinelFalse(is_fast_above, was) ==
    LET prev == IF was = None THEN FALSE ELSE was[1] IN
    [cmd |-> IF is_fast_above /\ ~prev THEN "set_holdings"
             ELSE IF ~is_fast_above /\ prev THEN "liquidate" ELSE "none",
     was |-> Some(is_fast_above)]

DetectNoStore(is_fast_above, was) ==
    IF was = None
    THEN [cmd |-> "none", was |-> Some(is_fast_above)]
    ELSE [cmd |-> IF is_fast_above /\ ~was[1] THEN "set_holdings"
                  ELSE IF ~is_fast_above /\ was[1] THEN "liquidate" ELSE "none",
          was |-> was]

DetectLevel(is_fast_above, was) ==
    IF was = None
    THEN [cmd |-> "none", was |-> Some(is_fast_above)]
    ELSE [cmd |-> IF is_fast_above THEN "set_holdings"
                  ELSE IF was[1] THEN "liquidate" ELSE "none",
          was |-> Some(is_fast_above)]

Detect(is_fast_above, was) ==
    IF was = None
    THEN [cmd |-> "none", was |-> Some(is_fast_above)]
    ELSE [cmd |-> IF is_fast_above /\ ~was[1] THEN "set_holdings"
                  ELSE IF ~is_fast_above /\ was[1] THEN "liquidate" ELSE "none",
          was |-> Some(is_fast_above)]

\* set_holdings(symbol, 1.0) / liquidate(symbol) as target exposure in percent
Sizing(cmd) == IF cmd = "set_holdings" THEN [op |-> cmd, target |-> 100]
               ELSE [op |-> cmd, target |-> 0]

\* on_order_event: which marker series (if any) the event is plotted on
FillSideAnyStatus(status, fill_quantity) ==
    IF fill_quantity > 0 THEN "Buy"
    ELSE IF fill_quantity < 0 THEN "Sell" ELSE "none"

FillSide(status, fill_quantity) ==
    IF status # "FILLED" THEN "none"
    ELSE IF fill_quantity > 0 THEN "Buy"
    ELSE IF fill_quantity < 0 THEN "Sell" ELSE "none"

EmptyChart == [n \in SeriesNames |-> <<>>]

NoCall == [op |-> "initialize"]

InitLive ==
    /\ was_fast_above = None
    /\ chart = EmptyChart
    /\ orders = <<>>
    /\ now = 0
    /\ call = NoCall
    /\ trace = <<>>

on_data(is_warming_up, fast_ready, slow_ready, has_bar, close, fast, slow) ==
    /\ now < MaxCalls
    /\ now' = now + 1
    /\ call' = [op |-> "on_data", is_warming_up |-> is_warming_up,
                fast_ready |-> fast_ready, slow_ready |-> slow_ready,
                has_bar |-> has_bar, close |-> close, fast |-> fast, slow |-> slow]
    /\ IF Skips(is_warming_up, fast_ready, slow_ready, has_bar)
       THEN UNCHANGED <<was_fast_above, chart, orders, trace>>
       ELSE LET t == now + 1
                is_fast_above == IsFastAbove(fast, slow)
                d == Detect(is_fast_above, was_fast_above)
            IN /\ chart' = plot(plot(plot(chart, "Price", t, close),
                                     "FastSMA", t, fast), "SlowSMA", t, slow)
               /\ was_fast_above' = d.was
               /\ orders' = IF d.cmd = "none" THEN orders
                            ELSE Append(orders, Sizing(d.cmd))
               /\ trace' = Append(trace, [fast |-> fast, slow |-> slow,
                                          was |-> was_fast_above, cmd |-> d.cmd])

on_order_event(status, fill_quantity, fill_price) ==
    /\ now < MaxCalls
    /\ now' = now + 1
    /\ call' = [op |-> "on_order_event", status |-> status,
                fill_quantity |-> fill_quantity, fill_price |-> fill_price]
    /\ LET side == FillSide(status, fill_quantity) IN
       chart' = IF side = "none" THEN chart
                ELSE plot(chart, side, now + 1, fill_price)
    /\ UNCHANGED <<was_fast_above, orders, trace>>

OnData ==
    \E w \in BOOLEAN, fr \in BOOLEAN, sr \in BOOLEAN, hb \in BOOLEAN,
       c \in CloseValues, f \in FastValues, s \in SlowValues :
        on_data(w, fr, sr, hb, c, f, s)

OnOrderEvent ==
    \E st \in OrderStatuses, q \in FillQuantities, p \in FillPrices :
        on_order_event(st, q, p)

\* ------------------------------------------------------------------------
\* tools/visualize_lean_charts.py : JSON values
\* ------------------------------------------------------------------------
\* A JSON scalar is a one-field record whose field name is its type:
\*   [int |-> n]      a JSON integer
\*   [float |-> d]    a JSON real, d in tenths (15 is 1.5)
\*   [str |-> s]      a JSON string
\*   [null |-> TRUE]  JSON null
\* A JSON array is [list |-> <<...>>], a JSON object is [dict |-> record].
\* Python floats (the ys) are carried in tenths.
JInt(n) == [int |-> n]
JFloat(d) == [float |-> d]
JStr(s) == [str |-> s]
JNull == [null |-> TRUE]
JList(s) == [list |-> s]
JDict(d) == [dict |-> d]

IsA(v, type) == type \in DOMAIN v

Failed == [ok |-> FALSE, v |-> 0]
Ok(n) == [ok |-> TRUE, v |-> n]

\* truncation toward zero of d/10
Trunc10(d) == IF d >= 0 THEN d \div 10 ELSE -((-d) \div 10)

\* int(x): integers as they are, reals truncated, strings holding an
\* integer literal parsed, anything else raises
PyInt(x) ==
    IF IsA(x, "int") THEN Ok(x.int)
    ELSE IF IsA(x, "float") THEN Ok(Trunc10(x.float))
    ELSE IF IsA(x, "str") THEN
        (IF x.str = "2" THEN Ok(2) ELSE Failed)
    ELSE Failed

\* float(y), in tenths: numbers as they are, strings holding a decimal
\* literal parsed, anything else raises
PyFloat(y) ==
    IF IsA(y, "int") THEN Ok(y.int * 10)
    ELSE IF IsA(y, "float") THEN Ok(y.float)
    ELSE IF IsA(y, "str") THEN
        (IF y.str = "2" THEN Ok(20)
         ELSE IF y.str = "1.5" THEN Ok(15) ELSE Failed)
    ELSE Failed

\* the isinstance chain of the loop body: the (x_s, y) a point unpacks to,
\* or nothing when the point has another shape
UnpackSwapped(item) ==
    IF IsA(item, "list") /\ Len(item.list) = 2
    THEN [ok |-> TRUE, x_s |-> item.list[1], y |-> item.list[2]]
    ELSE IF IsA(item, "dict") /\ {"x", "y"} \subseteq DOMAIN item.dict
    THEN [ok |-> TRUE, x_s |-> item.dict.y, y |-> item.dict.x]
    ELSE [ok |-> FALSE, x_s |-> JNull, y |-> JNull]

Unpack(item) ==
    IF IsA(item, "list") /\ Len(item.list) = 2
    THEN [ok |-> TRUE, x_s |-> item.list[1], y |-> item.list[2]]
    ELSE IF IsA(item, "dict") /\ {"x", "y"} \subseteq DOMAIN item.dict
    THEN [ok |-> TRUE, x_s |-> item.dict.x, y |-> item.dict.y]
    ELSE [ok |-> FALSE, x_s |-> JNull, y |-> JNull]

\* the for loop of _extract_xy over the remaining values, with the two
\* output lists built so far.  The try block appends the timestamp before it
\* converts the value.
RECURSIVE ExtractLoop(_, _, _)
ExtractLoop(values, xs_ms, ys) ==
    IF values = <<>> THEN [xs_ms |-> xs_ms, ys |-> ys]
    ELSE LET u == Unpack(Head(values))
             rest == Tail(values)
         IN IF ~u.ok THEN ExtractLoop(rest, xs_ms, ys)
            ELSE LET xi == PyInt(u.x_s) IN
                 IF ~xi.ok THEN ExtractLoop(rest, xs_ms, ys)
                 ELSE LET xs1 == Append(xs_ms, xi.v * 1000)
                          yf == PyFloat(u.y)
                      IN IF ~yf.ok THEN ExtractLoop(rest, xs1, ys)
                         ELSE ExtractLoop(rest, xs1, Append(ys, yf.v))

\* A series object: has_values is whether series.get("values") is truthy
\* (present, not null, not empty); otherwise the values default to [].
SeriesOf(values) == [has_values |-> values # <<>>, values |-> values]
NoSeries == [has_values |-> FALSE, values |-> <<>>]

_extract_xy(s) ==
    LET values == IF s.has_values THEN s.values ELSE <<>>
    IN ExtractLoop(values, <<>>, <<>>)

\* ------------------------------------------------------------------------
\* ExtractSpec: _extract_xy applied to one raw series
\* ------------------------------------------------------------------------
MaxPoints == 2

RawScalars == {JInt(1), JFloat(15), JStr("2"), JStr("1.5"), JStr("abc"), JNull}

RawPoints ==
    {JList(<<x, y>>) : x \in RawScalars, y \in RawScalars}
    \cup {JDict([x |-> x, y |-> y]) : x \in RawScalars, y \in RawScalars}
    \cup {JList(<<JInt(1)>>), JList(<<JInt(1), JInt(1), JInt(1)>>),
          JDict([x |-> JInt(1)]), JInt(1)}

SeqsUpTo(S, n) == UNION {[1..k -> S] : k \in 0..n}

RawSeries == {SeriesOf(v) : v \in SeqsUpTo(RawPoints, MaxPoints)}

NotExtracted == [done |-> FALSE, xs_ms |-> <<>>, ys |-> <<>>]

Extract ==
    /\ ~extracted.done
    /\ LET r == _extract_xy(series) IN
       extracted' = [done |-> TRUE, xs_ms |-> r.xs_ms, ys |-> r.ys]
    /\ UNCHANGED <<series, liveVars, toolVars>>

\* ------------------------------------------------------------------------
\* tools/visualize_lean_charts.py : trade table
\* ------------------------------------------------------------------------
\* _ms_to_utc_iso: the UTC calendar time of ms/1000, formatted
\* "%Y-%m-%d %H:%M:%S".  The string is carried as its six zero-padded
\* fields <<Y, m, d, H, M, S>>; strftime drops the sub-second part.  The
\* calendar is laid out for December 1969 .. February 1970.
CivilDate(days) ==
    IF days < 0 THEN <<1969, 12, 32 + days>>
    ELSE IF days < 31 THEN <<1970, 1, days + 1>>
    ELSE <<1970, 2, days - 30>>

_ms_to_utc_iso(ms) ==
    LET secs == ms \div 1000
        days == secs \div 86400
        rem  == secs % 86400
    IN CivilDate(days) \o <<rem \div 3600, (rem % 3600) \div 60, rem % 60>>

\* Python's < on two strings of that format: lexicographic, which on
\* zero-padded fixed-width fields is lexicographic on the fields
RECURSIVE StrLess(_, _)
StrLess(a, b) ==
    IF a = <<>> \/ b = <<>> THEN a = <<>> /\ b # <<>>
    ELSE IF Head(a) # Head(b) THEN Head(a) < Head(b)
    ELSE StrLess(Tail(a), Tail(b))

\* zip(xs, ys): pairs up to the shorter list
Min(a, b) == IF a < b THEN a ELSE b
zip(xs, ys) == [i \in 1..Min(Len(xs), Len(ys)) |-> <<xs[i], ys[i]>>]

RECURSIVE InsertByTimeUnstable(_, _)
InsertByTimeUnstable(sorted, t) ==
    IF sorted = <<>> THEN <<t>>
    ELSE IF ~StrLess(Head(sorted)[1], t[1]) THEN <<t>> \o sorted
    ELSE <<Head(sorted)>> \o InsertByTimeUnstable(Tail(sorted), t)

\* list.sort(key=lambda t: t[0]) is stable: an element goes after every
\* element already placed whose key is not greater than its own
RECURSIVE InsertByTime(_, _)
InsertByTime(sorted, t) ==
    IF sorted = <<>> THEN <<t>>
    ELSE IF StrLess(t[1], Head(sorted)[1]) THEN <<t>> \o sorted
    ELSE <<Head(sorted)>> \o InsertByTime(Tail(sorted), t)

RECURSIVE SortByTimeFrom(_, _)
SortByTimeFrom(sorted, todo) ==
    IF todo = <<>> THEN sorted
    ELSE SortByTimeFrom(InsertByTime(sorted, Head(todo)), Tail(todo))

SortByTime(trades) == SortByTimeFrom(<<>>, trades)

\* the rows of one side: (time string, side, price)
SideRows(xs, ys, side) ==
    LET z == zip(xs, ys) IN
    [i \in 1..Len(z) |-> <<_ms_to_utc_iso(z[i][1]), side, z[i][2]>>]

\* "{price:.4f}": the price in units of 0.0001
Format4f(price) == price * 1000

NoTradesRow == <<"No trades">>

_build_trades_table(buy_x, buy_y, sell_x, sell_y) ==
    LET trades == SortByTime(SideRows(buy_x, buy_y, "BUY")
                             \o SideRows(sell_x, sell_y, "SELL"))
        rows == [i \in 1..Len(trades) |->
                    <<trades[i][1], trades[i][2], Format4f(trades[i][3])>>]
    IN [html |-> IF rows # <<>> THEN rows ELSE <<NoTradesRow>>,
        trades |-> trades]

\* ------------------------------------------------------------------------
\* tools/visualize_lean_charts.py : main
\* ------------------------------------------------------------------------
MaxMarkers == 2

ChartNames == {"AAPL", "QQQ", "SPY"}

\* sorted(charts.keys()) ; Python orders these names "AAPL" < "QQQ" < "SPY"
NameOrder == <<"AAPL", "QQQ", "SPY">>
SortedNames(S) == SelectSeq(NameOrder, LAMBDA n : n \in S)

\* <input-stem>-viz.html next to the input, unless --output is given
DefaultOutput(input) == IF input = "run.json" THEN "run-viz.html" ELSE "-viz.html"
OutputPath(a) == IF a.output # "" THEN a.output ELSE DefaultOutput(a.input)

\* series.get(name) or {}
GetSeries(chartObj, name) ==
    IF name \in DOMAIN chartObj THEN chartObj[name] ELSE NoSeries

\* _build_html: the literals the document embeds
_build_html(title, price, buy, sell, fast, slow, trades_rows_html) ==
    [title |-> title,
     priceX |-> price.xs_ms, priceY |-> price.ys,
     buyX |-> buy.xs_ms, buyY |-> buy.ys,
     sellX |-> sell.xs_ms, sellY |-> sell.ys,
     fastX |-> fast.xs_ms, fastY |-> fast.ys,
     slowX |-> slow.xs_ms, slowY |-> slow.ys,
     rows |-> trades_rows_html]

NoMessage == [text |-> "", chart |-> "", available |-> <<>>]
NoHtml == _build_html("", NotExtracted, NotExtracted, NotExtracted,
                      NotExtracted, NotExtracted, <<>>)

NotRun == [pc |-> "start", status |-> 0, message |-> NoMessage,
           written |-> "", html |-> NoHtml, trades |-> <<>>, stdout |-> <<>>]

\* the chart lookup: result.get("charts") or {} ; charts.get(args.chart)
ChartsOf(result) == IF result.has_charts THEN DOMAIN result.charts ELSE {}

ChartMissing(result, name) == name \notin ChartsOf(result)

\* raise SystemExit(message): the message goes to stderr, the process ends
\* with status 1, nothing has been written
SystemExitZero(text, chartName, available) ==
    [NotRun EXCEPT !.pc = "exit", !.status = 0,
        !.message = [text |-> text, chart |-> chartName, available |-> available]]

SystemExit(text, chartName, available) ==
    [NotRun EXCEPT !.pc = "exit", !.status = 1,
        !.message = [text |-> text, chart |-> chartName, available |-> available]]

\* what the run leaves behind when it gets past both checks
Render(a, chartObj) ==
    LET price == _extract_xy(GetSeries(chartObj, "Price"))
        fast  == _extract_xy(GetSeries(chartObj, "FastSMA"))
        slow  == _extract_xy(GetSeries(chartObj, "SlowSMA"))
        buy   == _extract_xy(GetSeries(chartObj, "Buy"))
        sell  == _extract_xy(GetSeries(chartObj, "Sell"))
        table == _build_trades_table(buy.xs_ms, buy.ys, sell.xs_ms, sell.ys)
    IN [pc |-> "exit", status |-> 0, message |-> NoMessage,
        written |-> OutputPath(a),
        html |-> _build_html(a.chart, price, buy, sell, fast, slow, table.html),
        trades |-> table.trades,
        stdout |-> (IF table.trades # <<>> THEN <<"Trades (UTC):">> ELSE <<>>)
                   \o [i \in 1..Len(table.trades) |-> "trade"]
                   \o <<OutputPath(a)>>]

main ==
    /\ tool.pc = "start"
    /\ tool' =
         IF ~disk.exists
         THEN SystemExit("Input json not found", "", <<>>)
         ELSE IF ChartMissing(disk.result, argv.chart)
         THEN SystemExit("Chart not found", argv.chart,
                         SortedNames(ChartsOf(disk.result)))
         ELSE Render(argv, disk.result.charts[argv.chart])
    /\ UNCHANGED <<argv, disk, liveVars, extractVars>>

\* ---- inputs of a run ----
MarkerTimes == {JInt(-1), JInt(0)}
MarkerValues == {JInt(1), JInt(2), JStr("abc")}
MarkerPoints == {JList(<<x, y>>) : x \in MarkerTimes, y \in MarkerValues}
MarkerSeries(n) == {SeriesOf(v) : v \in SeqsUpTo(MarkerPoints, n)}

LineSeries == SeriesOf(<<JList(<<JInt(0), JInt(5)>>)>>)

\* a chart as the algorithm's run persists it
ChartObjs ==
    {[Price |-> LineSeries, FastSMA |-> LineSeries, SlowSMA |-> LineSeries,
      Buy |-> b, Sell |-> s] :
        b \in MarkerSeries(MaxMarkers), s \in MarkerSeries(MaxMarkers - 1)}

EmptyChartObj == [Price |-> NoSeries]

Args == [input : {"run.json"}, chart : {"QQQ", "SPY"}, output : {"", "out.html"}]

NoResult == [has_charts |-> FALSE, charts |-> [n \in {} |-> EmptyChartObj]]

\* result files: without a "charts" key, or with charts of which "SPY"
\* carries the recorded series
Results ==
    {NoResult}
    \cup {[has_charts |-> TRUE, charts |-> [n \in D |-> EmptyChartObj]] :
             D \in SUBSET (ChartNames \ {"SPY"})}
    \cup {[has_charts |-> TRUE,
           charts |-> [n \in D |-> IF n = "SPY" THEN c ELSE EmptyChartObj]] :
             D \in {{"SPY"}, ChartNames}, c \in ChartObjs}

Disks == {[exists |-> FALSE, result |-> NoResult]}
         \cup {[exists |-> TRUE, result |-> r] : r \in Results}

\* ------------------------------------------------------------------------
\* Specifications
\* ------------------------------------------------------------------------
IdleLive == InitLive
IdleExtract == series = NoSeries /\ extracted = NotExtracted
IdleTool == /\ argv = [input |-> "run.json", chart |-> "SPY", output |-> ""]
            /\ disk = [exists |-> FALSE, result |-> NoResult]
            /\ tool = NotRun

Init == InitLive /\ IdleExtract /\ IdleTool

Next ==
    \/ OnData /\ UNCHANGED <<extractVars, toolVars>>
    \/ OnOrderEvent /\ UNCHANGED <<extractVars, toolVars>>

Spec == Init /\ [][Next]_vars

ExtractInit ==
    /\ IdleLive
    /\ series \in RawSeries
    /\ extracted = NotExtracted
    /\ IdleTool

ExtractNext == Extract

ExtractSpec == ExtractInit /\ [][ExtractNext]_vars

ToolInit ==
    /\ IdleLive
    /\ IdleExtract
    /\ argv \in Args
    /\ disk \in Disks
    /\ tool = NotRun

ToolNext == main

ToolSpec == ToolInit /\ [][ToolNext]_vars

\* ------------------------------------------------------------------------
\* Properties of the crossover detector and the fill recorder (Spec)
\* ------------------------------------------------------------------------
\* the call just delivered was a bar that got past the guards of on_data
Processed(c) ==
    /\ c.op = "on_data"
    /\ ~c.is_warming_up /\ c.fast_ready /\ c.slow_ready /\ c.has_bar

NotProcessed(c) ==
    /\ c.op = "on_data"
    /\ (c.is_warming_up \/ ~(c.fast_ready /\ c.slow_ready) \/ ~c.has_bar)

Above(e) == e.fast > e.slow

CountIn(S, P(_)) == Cardinality({i \in S : P(i)})

Enters == CountIn(1..Len(trace), LAMBDA i : trace[i].cmd = "set_holdings")
Exits  == CountIn(1..Len(trace), LAMBDA i : trace[i].cmd = "liquidate")
UpCrossings ==
    CountIn(2..Len(trace), LAMBDA i : Above(trace[i]) /\ ~Above(trace[i-1]))
DownCrossings ==
    CountIn(2..Len(trace), LAMBDA i : ~Above(trace[i]) /\ Above(trace[i-1]))

Issued == SelectSeq(trace, LAMBDA e : e.cmd # "none")

\* C1: on every processed bar after initialisation the detector enters
\* (set_holdings to 100%) exactly when fast > slow and the stored flag is
\* false, exits (liquidate) exactly when fast <= slow and the stored flag is
\* true, and does nothing otherwise; the number of entries equals the number
\* of false->true transitions of the comparison, the number of exits the
\* number of true->false transitions, and exactly one sizing command is
\* issued per entry or exit and none otherwise.
C1_SignalsAreTransitions ==
    /\ \A i \in 1..Len(trace) :
          trace[i].was # None =>
             /\ trace[i].cmd = "set_holdings" <=> (Above(trace[i]) /\ ~trace[i].was[1])
             /\ trace[i].cmd = "liquidate" <=> (~Above(trace[i]) /\ trace[i].was[1])
             /\ trace[i].cmd \in {"set_holdings", "liquidate", "none"}
    /\ Enters = UpCrossings
    /\ Exits = DownCrossings
    /\ Len(orders) = Len(Issued)
    /\ \A k \in 1..Len(orders) :
          /\ orders[k].op = Issued[k].cmd
          /\ orders[k].target = IF Issued[k].cmd = "set_holdings" THEN 100 ELSE 0

C1_Witness ==
    /\ Len(trace) = 4
    /\ Enters = 1 /\ Exits = 1
    /\ trace[4].cmd = "none"

\* C2: the first processed bar (stored flag still None) issues no command
\* whatever the relative values of fast and slow, stores fast > slow as the
\* flag, and from then on the flag is never None again.
C2_FirstSampleOnlyInitializes ==
    [][/\ (Processed(call') /\ was_fast_above = None) =>
            /\ orders' = orders
            /\ was_fast_above' = Some(call'.fast > call'.slow)
            /\ trace'[Len(trace')].cmd = "none"
       /\ was_fast_above # None => was_fast_above' # None]_vars

C2_Witness ==
    /\ Processed(call)
    /\ Len(trace) = 1
    /\ call.fast > call.slow
    /\ was_fast_above = Some(TRUE)
    /\ orders = <<>>

\* C3: a bar delivered while warming up, while either indicator is not
\* ready, or without a bar for the symbol issues no command and leaves the
\* stored flag exactly as it was.
C3_NotReadyIsNoOp ==
    [][NotProcessed(call') =>
          /\ was_fast_above' = was_fast_above
          /\ orders' = orders
          /\ trace' = trace
          /\ chart' = chart]_vars

C3_Witness ==
    /\ call.op = "on_data"
    /\ ~call.is_warming_up /\ call.has_bar
    /\ ~call.fast_ready /\ call.slow_ready
    /\ call.fast > call.slow
    /\ was_fast_above = Some(FALSE)
    /\ orders = <<>>

\* C4 as stated: on a processed, initialised bar where fast = slow the
\* detector issues neither an entry nor an exit, and a stored flag of true
\* is not cleared.
C4_Original ==
    [][(Processed(call') /\ was_fast_above # None /\ call'.fast = call'.slow) =>
          /\ orders' = orders
          /\ was_fast_above = Some(TRUE) => was_fast_above' = Some(TRUE)]_vars

\* C4 amended: on a processed, initialised bar where fast = slow the
\* comparison is false: no entry is issued; a stored flag of true is cleared
\* and exactly one exit (liquidate) is issued; a stored flag of false stays
\* false and nothing is issued.
C4_EqualityIsNotAbove ==
    [][(Processed(call') /\ was_fast_above # None /\ call'.fast = call'.slow) =>
          /\ was_fast_above' = Some(FALSE)
          /\ was_fast_above = Some(TRUE) =>
                orders' = Append(orders, [op |-> "liquidate", target |-> 0])
          /\ was_fast_above = Some(FALSE) => orders' = orders]_vars

C4_Witness ==
    /\ Processed(call)
    /\ call.fast = call.slow
    /\ Len(trace) >= 2
    /\ trace[Len(trace)].was = Some(TRUE)
    /\ trace[Len(trace)].cmd = "liquidate"
    /\ was_fast_above = Some(FALSE)

\* C7: every order event with status FILLED and a non-zero fill quantity
\* appends exactly one marker, to Buy when the quantity is positive and to
\* Sell when it is negative, after the markers already there; any other
\* order event appends nothing; no order event touches the stored flag or
\* the sizing commands, and no bar touches the markers.
C7_RecorderAppendsOnePerFill ==
    [][/\ call'.op = "on_order_event" =>
            LET filled == call'.status = "FILLED"
                q == call'.fill_quantity
                mark == <<now', call'.fill_price>>
            IN /\ (filled /\ q > 0) =>
                     /\ chart'.Buy = Append(chart.Buy, mark)
                     /\ chart'.Sell = chart.Sell
               /\ (filled /\ q < 0) =>
                     /\ chart'.Sell = Append(chart.Sell, mark)
                     /\ chart'.Buy = chart.Buy
               /\ (~filled \/ q = 0) => chart' = chart
               /\ chart'.Price = chart.Price
               /\ was_fast_above' = was_fast_above
               /\ orders' = orders
       /\ call'.op = "on_data" =>
            chart'.Buy = chart.Buy /\ chart'.Sell = chart.Sell]_vars

C7_Witness ==
    /\ call.op = "on_order_event"
    /\ call.status # "FILLED" /\ call.fill_quantity # 0
    /\ Len(chart.Buy) = 2
    /\ chart.Buy[1][2] = chart.Buy[2][2]
    /\ Len(chart.Sell) = 1

\* C10: entries and exits strictly alternate, so their numbers differ by at
\* most one; after every processed bar the stored flag equals that bar's
\* fast > slow; and the first command of the run is an entry iff the
\* initialising bar stored false.
C10_SignalsAlternate ==
    /\ \A k \in 1..(Len(orders) - 1) : orders[k].op # orders[k+1].op
    /\ Enters - Exits \in {-1, 0, 1}
    /\ Len(orders) = Enters + Exits
    /\ trace # <<>> => was_fast_above = Some(Above(trace[Len(trace)]))
    /\ trace = <<>> => was_fast_above = None
    /\ orders # <<>> => (orders[1].op = "set_holdings" <=> ~Above(trace[1]))

C10_Witness ==
    /\ Len(orders) = 2
    /\ orders[1].op = "liquidate"
    /\ orders[2].op = "set_holdings"
    /\ now > Len(trace)

\* ------------------------------------------------------------------------
\* Properties of _extract_xy (ExtractSpec)
\* ------------------------------------------------------------------------
\* a point of one of the two accepted shapes
WellShaped(item) ==
    \/ IsA(item, "list") /\ Len(item.list) = 2
    \/ IsA(item, "dict") /\ DOMAIN item.dict = {"x", "y"}

PointX(item) == IF IsA(item, "list") THEN item.list[1] ELSE item.dict.x
PointY(item) == IF IsA(item, "list") THEN item.list[2] ELSE item.dict.y

\* the points that should survive: accepted shape, timestamp and value both
\* coercible
Survives(item) ==
    WellShaped(item) /\ PyInt(PointX(item)).ok /\ PyFloat(PointY(item)).ok

Survivors == SelectSeq(series.values, Survives)

\* C5: the extractor skips a malformed point entirely: the output is exactly
\* (int(x) * 1000, float(y)) of the points of an accepted shape whose
\* timestamp and value both coerce, in input order, so the two lists have
\* equal length and stay paired.
C5_MalformedPointsSkippedEntirely ==
    extracted.done =>
        /\ Len(extracted.xs_ms) = Len(extracted.ys)
        /\ Len(extracted.xs_ms) = Len(Survivors)
        /\ \A i \in 1..Len(Survivors) :
              /\ i <= Len(extracted.xs_ms) =>
                    extracted.xs_ms[i] = PyInt(PointX(Survivors[i])).v * 1000
              /\ i <= Len(extracted.ys) =>
                    extracted.ys[i] = PyFloat(PointY(Survivors[i])).v

\* the same point in the other accepted form
OtherForm(item) ==
    IF IsA(item, "list") /\ Len(item.list) = 2
    THEN JDict([x |-> item.list[1], y |-> item.list[2]])
    ELSE IF IsA(item, "dict") /\ DOMAIN item.dict = {"x", "y"}
    THEN JList(<<item.dict.x, item.dict.y>>)
    ELSE item

Recoded(s) == [s EXCEPT !.values = [i \in 1..Len(s.values) |-> OtherForm(s.values[i])]]

AllArrayForm(s) ==
    \A i \in 1..Len(s.values) : IsA(s.values[i], "list") /\ Len(s.values[i].list) = 2

\* C9: a series in array form [[t, v], ...] and the same series in object
\* form [{x: t, y: v}, ...] extract to identical timestamp and value lists,
\* malformed points included; an integer timestamp t comes out as t * 1000.
C9_ArrayAndObjectFormsAgree ==
    extracted.done =>
        /\ LET other == _extract_xy(Recoded(series)) IN
              /\ extracted.xs_ms = other.xs_ms
              /\ extracted.ys = other.ys
        /\ (AllArrayForm(series) /\ Len(extracted.xs_ms) = Len(series.values)) =>
              \A i \in 1..Len(series.values) :
                 IsA(series.values[i].list[1], "int") =>
                    extracted.xs_ms[i] = series.values[i].list[1].int * 1000

C9_Witness ==
    /\ extracted.done
    /\ Len(series.values) = 2
    /\ IsA(series.values[1], "dict") /\ DOMAIN series.values[1].dict = {"x", "y"}
    /\ series.values[2] = JList(<<JInt(1), JStr("abc")>>)
    /\ extracted.xs_ms = <<2000, 1000>>
    /\ extracted.ys = <<15>>

\* ------------------------------------------------------------------------
\* Properties of the offline tool (ToolSpec)
\* ------------------------------------------------------------------------
\* the time strings of the marker instants, as Python prints them
IsoOfInstant(ms) ==
    IF ms = -1000 THEN <<1969, 12, 31, 23, 59, 59>>
    ELSE IF ms = 0 THEN <<1970, 1, 1, 0, 0, 0>>
    ELSE <<>>

Instants == {-1000, 0}

\* the buy points then the sell points, as (ms, side, price)
MarkersIn ==
    LET b == zip(tool.html.buyX, tool.html.buyY)
        s == zip(tool.html.sellX, tool.html.sellY)
    IN [i \in 1..Len(b) |-> <<b[i][1], "BUY", b[i][2]>>]
       \o [i \in 1..Len(s) |-> <<s[i][1], "SELL", s[i][2]>>]

RowOf(m) == <<IsoOfInstant(m[1]), m[2], m[3]>>

RowsAt(ms) ==
    LET at == SelectSeq(MarkersIn, LAMBDA m : m[1] = ms)
    IN [i \in 1..Len(at) |-> RowOf(at[i])]

Rendered == tool.pc = "exit" /\ tool.status = 0

\* C6: the trade table holds every buy point as a BUY row and every sell
\* point as a SELL row exactly once, ascending by time, and rows of one
\* instant keep concatenation order: buys before sells, each side in input
\* order.
C6_TradeTableStableSorted ==
    Rendered =>
        /\ Len(tool.trades) = Len(MarkersIn)
        /\ \A i \in 1..Len(tool.trades), j \in 1..Len(tool.trades) :
              i < j => ~StrLess(tool.trades[j][1], tool.trades[i][1])
        /\ \A ms \in Instants :
              SelectSeq(tool.trades, LAMBDA r : r[1] = IsoOfInstant(ms)) = RowsAt(ms)
        /\ \A i \in 1..Len(MarkersIn) : MarkersIn[i][1] \in Instants

C6_Witness ==
    /\ Rendered
    /\ Len(tool.html.buyX) = 2 /\ Len(tool.html.buyY) = 2
    /\ tool.html.buyX[1] > tool.html.buyX[2]
    /\ Len(tool.trades) = 3
    /\ tool.trades[2][2] = "BUY" /\ tool.trades[3][2] = "SELL"
    /\ tool.trades[2][1] = tool.trades[3][1]

ChartKeys == IF disk.result.has_charts THEN DOMAIN disk.result.charts ELSE {}

\* C8: a run whose input file is missing, or whose requested chart is
\* absent, ends with a non-zero status and a message naming what is missing,
\* and writes nothing; for an absent chart the message lists the available
\* chart names in order, and lists none when the file has no "charts" key.
C8_MissingResourceIsFatal ==
    tool.pc = "exit" =>
        /\ ~disk.exists =>
              /\ tool.status # 0
              /\ tool.message.text = "Input json not found"
              /\ tool.written = ""
        /\ (disk.exists /\ argv.chart \notin ChartKeys) =>
              /\ tool.status # 0
              /\ tool.message.text = "Chart not found"
              /\ tool.message.chart = argv.chart
              /\ {tool.message.available[i] : i \in 1..Len(tool.message.available)}
                    = ChartKeys
              /\ Len(tool.message.available) = Cardinality(ChartKeys)
              /\ tool.written = ""
        /\ (disk.exists /\ ~disk.result.has_charts) =>
              /\ tool.message.text = "Chart not found"
              /\ tool.message.available = <<>>
        /\ (disk.exists /\ argv.chart \in ChartKeys) =>
              tool.status = 0 /\ tool.written # ""

C8_Witness ==
    /\ tool.pc = "exit"
    /\ disk.exists
    /\ argv.chart = "SPY"
    /\ tool.message.text = "Chart not found"
    /\ tool.message.available = <<"AAPL", "QQQ">>
    /\ tool.status = 1
====
